---- MODULE Spec2Model ----
(***************************************************************************)
(* A model of social_rss: the VK news feed assembler (vk.py) and the RSS   *)
(* generator (rss.py).                                                     *)
(*                                                                         *)
(* Python dicts are functions whose DOMAIN is the set of keys present, so  *)
(* a missing key (KeyError) is a key outside the DOMAIN.  An HTML string   *)
(* is a sequence of nodes [tag, arg, body]; string concatenation of HTML   *)
(* is sequence concatenation and the empty string is the empty sequence.   *)
(* A call that may raise returns a record whose kind is "item", "none"     *)
(* (Python None) or "raise".  The localized (Cyrillic) string literals of  *)
(* the source are written in ASCII.                                        *)
(***************************************************************************)
EXTENDS Integers, Sequences, FiniteSets, TLC

VARIABLES
    response,    \* what vk_api.call returned (vk.py:84)
    users,       \* _get_newsfeed's local users
    items,       \* _get_newsfeed's local items
    pos,         \* index of the next element of response["items"] the loop takes
    pc,          \* position in _get_newsfeed / generate
    feed,        \* the value _get_newsfeed returned
    log,         \* what was written to LOG
    DEBUG_MODE,  \* config.DEBUG_MODE
    rendered,    \* the bytes the template produced in generate
    rss          \* the value generate returned

vars == <<response, users, items, pos, pc, feed, log, DEBUG_MODE, rendered, rss>>

(***************************************************************************)
(* Python helpers                                                          *)
(***************************************************************************)
Has(d, k) == k \in DOMAIN d

HasAll(d, ks) == ks \subseteq DOMAIN d

Put(d, k, v) == [x \in DOMAIN d \cup {k} |-> IF x = k THEN v ELSE d[x]]

EmptyDict == [x \in {} |-> x]

Abs(n) == IF n < 0 THEN -n ELSE n

\* "{:02d}".format(n)
Pad2(n) == IF n < 10 THEN "0" \o ToString(n) ELSE ToString(n)

\* The texts of the model are either made of whitespace only or have no
\* leading or trailing whitespace.
WhitespaceTexts == {"", " "}

\* str.strip()
Strip(s) == IF s \in WhitespaceTexts THEN "" ELSE s

\* A plain string as HTML.
Text(s) == IF s = "" THEN <<>> ELSE <<[tag |-> "text", arg |-> s, body |-> <<>>]>>

LogEntry(level, msg, args) == [level |-> level, msg |-> msg, args |-> args]

(***************************************************************************)
(* social_rss.render                                                       *)
(***************************************************************************)
_block(html) == <<[tag |-> "block", arg |-> "", body |-> html]>>

_em(html) == <<[tag |-> "em", arg |-> "", body |-> html]>>

_image(src) == <<[tag |-> "img", arg |-> src, body |-> <<>>]>>

_link(url, html) == <<[tag |-> "a", arg |-> url, body |-> html]>>

_image_block(url, image, html) ==
    <<[tag |-> "image_block", arg |-> url, body |-> _image(image) \o html]>>

_quote_block(quote, html) == <<[tag |-> "quote", arg |-> quote, body |-> html]>>

RECURSIVE Cells(_)
Cells(row) ==
    IF row = <<>> THEN <<>>
    ELSE <<[tag |-> "td", arg |-> "", body |-> Head(row)]>> \o Cells(Tail(row))

RECURSIVE Rows(_)
Rows(rows) ==
    IF rows = <<>> THEN <<>>
    ELSE <<[tag |-> "tr", arg |-> "", body |-> Cells(Head(rows))]>> \o Rows(Tail(rows))

_table(rows, column_spacing) ==
    <<[tag |-> "table", arg |-> ToString(column_spacing), body |-> Rows(rows)]>>

(***************************************************************************)
(* vk.py: constants and internal tools                                     *)
(***************************************************************************)
_CATEGORY_TYPE == "type/"

_CATEGORY_TYPE_REPOST == _CATEGORY_TYPE \o "repost"

_CATEGORY_SOURCE == "source/"

_CATEGORY_SOURCE_USER == _CATEGORY_SOURCE \o "user/"

_CATEGORY_SOURCE_GROUP == _CATEGORY_SOURCE \o "group/"

RECURSIVE AddProfiles(_, _)
AddProfiles(us, profiles) ==
    IF profiles = <<>> THEN us
    ELSE LET profile == Head(profiles)
         IN  AddProfiles(
                 Put(us, profile.uid,
                     [id    |-> profile.uid,
                      name  |-> profile.first_name \o " " \o profile.last_name,
                      photo |-> profile.photo]),
                 Tail(profiles))

RECURSIVE AddGroups(_, _)
AddGroups(us, groups) ==
    IF groups = <<>> THEN us
    ELSE LET group == Head(groups)
         IN  AddGroups(
                 Put(us, -group.gid,
                     [id    |-> -group.gid,
                      name  |-> group.name,
                      photo |-> group.photo]),
                 Tail(groups))

_get_users(profiles, groups) == AddGroups(AddProfiles(EmptyDict, profiles), groups)

_get_profile_name(user_id) ==
    (IF user_id < 0 THEN "club" ELSE "id") \o ToString(Abs(user_id))

_vk_id2(obj_type, owner_id) == obj_type \o ToString(owner_id)

_vk_id(obj_type, owner_id, object_id) ==
    obj_type \o ToString(owner_id) \o "_" \o ToString(object_id)

_vk_url(obj) == "https://vk.com/" \o obj

_get_user_url(user_id) == _vk_url(_get_profile_name(user_id))

_duration(seconds) ==
    LET hours   == (seconds \div 60) \div 60
        minutes == (seconds \div 60) % 60
        secs    == seconds % 60
    IN  IF hours # 0
        THEN Pad2(hours) \o ":" \o Pad2(minutes) \o ":" \o Pad2(secs)
        ELSE Pad2(minutes) \o ":" \o Pad2(secs)

_vk_link(target, html) == _link(_vk_url(target), html)

_photo(info, big) ==
    _block(_vk_link(_vk_id("photo", info.owner_id, info.pid),
                    _image(IF big THEN info.src_big ELSE info.src)))

\* The texts of the model hold no URL and no [id|label] mention, so the three
\* substitutions leave them as they are and only the strip acts.
_parse_text(html) == Text(Strip(html))

(***************************************************************************)
(* vk.py: parsing                                                          *)
(***************************************************************************)
None == [kind |-> "none", log |-> <<>>]

Raise == [kind |-> "raise", log |-> <<>>]

Item(item) == [kind |-> "item", log |-> <<>>, item |-> item]

\* seq[1:]
Slice1(seq) == IF Len(seq) = 0 THEN <<>> ELSE Tail(seq)

\* urllib.parse.urlencode of the "z" parameter of a photo URL: "/" is quoted.
PhotoZ(feed_no, photo, api_item) ==
    "z=photo" \o ToString(photo.owner_id) \o "_" \o ToString(photo.pid)
        \o "%2Ffeed" \o feed_no \o "_" \o ToString(api_item.source_id)
        \o "_" \o ToString(api_item.date)

RECURSIVE FriendRows(_, _)
FriendRows(us, friends) ==
    IF friends = <<>> THEN <<>>
    ELSE LET friend     == us[Head(friends).uid]
             friend_url == _get_user_url(friend.id)
         IN  <<<<_link(friend_url, _image(friend.photo)),
                 _link(friend_url, Text(friend.name))>>>>
                 \o FriendRows(us, Tail(friends))

_friend_item(us, user, item) ==
    IF ~Has(item, "friends") THEN None
    ELSE
    LET friends == Slice1(item.friends)
    IN  IF \E i \in DOMAIN friends :
               ~Has(friends[i], "uid") \/ ~Has(us, friends[i].uid)
        THEN Raise
        ELSE IF Len(item.friends) = 0 THEN Raise
        ELSE Item(
            [title |-> user.name \o ": new friends",
             text  |-> _table(FriendRows(us, friends), 7)
                           \o (IF item.friends[1] > Len(friends)
                               THEN _block(Text("[not all new friends are shown]"))
                               ELSE <<>>),
             url   |-> _vk_url("friends?id=" \o ToString(user.id) \o "&section=all")])

RECURSIVE NoteBlocks(_)
NoteBlocks(notes) ==
    IF notes = <<>> THEN <<>>
    ELSE LET note == Head(notes)
         IN  _block(_em(Text("Note: ")
                 \o _vk_link(_vk_id("note", note.owner_id, note.nid), Text(note.title))))
             \o NoteBlocks(Tail(notes))

_note_item(us, user, item) ==
    IF ~Has(item, "notes") THEN Raise
    ELSE
    LET notes == Slice1(item.notes)
    IN  IF \E i \in DOMAIN notes : ~HasAll(notes[i], {"owner_id", "nid", "title"})
        THEN Raise
        ELSE IF Len(item.notes) = 0 THEN Raise
        ELSE IF Len(notes) = 0 THEN Raise      \* notes[0] of an empty list
        ELSE Item(
            [title |-> user.name \o ": note",
             text  |-> NoteBlocks(notes)
                           \o (IF item.notes[1] > Len(notes)
                               THEN _block(Text("[not all notes are shown]"))
                               ELSE <<>>),
             url   |-> _vk_url(_vk_id("note", notes[1].owner_id, notes[1].nid))])

\* The two get_photo_url lambdas.
get_photo_url(type, photo, api_item) ==
    _vk_url("feed?" \o (IF type = "photo"
                        THEN "section=photos&" \o PhotoZ("1", photo, api_item)
                        ELSE PhotoZ("3", photo, api_item)))

RECURSIVE PhotoBlocks(_, _)
PhotoBlocks(photos, api_item) ==
    IF photos = <<>> THEN <<>>
    ELSE _block(_link(get_photo_url(api_item.type, Head(photos), api_item),
                      _image(Head(photos).src_big)))
             \o PhotoBlocks(Tail(photos), api_item)

_photo_item(us, user, api_item) ==
    LET key == IF api_item.type = "photo" THEN "photos" ELSE "photo_tags"
    IN
    IF api_item.type \notin {"photo", "photo_tag"} THEN Raise
    ELSE IF ~Has(api_item, key) THEN Raise
    ELSE
    LET photos  == api_item[key]
        entries == Slice1(photos)
        title   == IF api_item.type = "photo" THEN "new photos" ELSE "new photo tags"
        text    == PhotoBlocks(entries, api_item)
        base    == [title |-> user.name \o ": " \o title]
    IN  IF \E i \in DOMAIN entries : ~HasAll(entries[i], {"owner_id", "pid", "src_big"})
        THEN Raise
        ELSE IF entries # <<>> /\ ~HasAll(api_item, {"source_id", "date"}) THEN Raise
        ELSE IF Len(photos) = 0 THEN Raise
        ELSE Item(
            LET withText ==
                    Put(base, "text",
                        text \o (IF photos[1] > Len(photos) - 1
                                 THEN _block(Text("[not all photos are shown]"))
                                 ELSE <<>>))
            IN  IF entries = <<>> THEN withText
                ELSE Put(withText, "url",
                         get_photo_url(api_item.type, entries[1], api_item)))

attachment_order ==
    <<"doc", "note", "page", "poll", "album", "posted_photo", "photo",
      "graffiti", "app", "video", "link", "audio">>

attachment_sort_key(attachment) ==
    IF \E i \in DOMAIN attachment_order : attachment_order[i] = attachment.type
    THEN (CHOOSE i \in DOMAIN attachment_order : attachment_order[i] = attachment.type) - 1
    ELSE Len(attachment_order)

\* One step of a stable sort: x goes after every element whose key is not larger.
RECURSIVE InsertSorted(_, _)
InsertSorted(x, seq) ==
    IF seq = <<>> THEN <<x>>
    ELSE IF attachment_sort_key(x) < attachment_sort_key(Head(seq))
         THEN <<x>> \o seq
         ELSE <<Head(seq)>> \o InsertSorted(x, Tail(seq))

\* sorted(seq, key=attachment_sort_key)
RECURSIVE SortedAttachments(_)
SortedAttachments(seq) ==
    IF seq = <<>> THEN <<>>
    ELSE InsertSorted(seq[Len(seq)], SortedAttachments(SubSeq(seq, 1, Len(seq) - 1)))

PhotoTypes == {"app", "graffiti", "photo", "posted_photo"}

\* functools.reduce over the attachments
RECURSIVE PhotoCount(_)
PhotoCount(attachments) ==
    IF attachments = <<>> THEN 0
    ELSE (IF Head(attachments).type \in PhotoTypes THEN 1 ELSE 0)
             + PhotoCount(Tail(attachments))

\* Mutant: large as soon as there is a photo.
BigImageWithAnyPhoto(attachments) == PhotoCount(attachments) >= 1

BigImage(attachments) == PhotoCount(attachments) = 1

\* Mutant: the type is never re-tagged.
AttachmentCategoryAsIs(type) == type

\* attachment_category: the type, but for the two that are re-tagged.
AttachmentCategory(type) ==
    IF type \in {"photo", "photos_list"} THEN "posted_photo" ELSE type

Rendered(top, bottom, type, unknown) ==
    [raised |-> FALSE, top |-> top, bottom |-> bottom,
     categories |-> {_CATEGORY_TYPE \o AttachmentCategory(type)}, unknown |-> unknown]

RenderFailed ==
    [raised |-> TRUE, top |-> <<>>, bottom |-> <<>>, categories |-> {}, unknown |-> {}]

InfoHas(attachment, keys) ==
    Has(attachment, attachment.type) /\ HasAll(attachment[attachment.type], keys)

\* One iteration of the loop over the attachments.
RenderAttachment(attachment, big_image) ==
    LET type    == attachment.type
        info    == attachment[type]
        src_key == IF big_image THEN "src_big" ELSE "src"
    IN  CASE type = "app" ->
                IF ~InfoHas(attachment, {"app_id", src_key}) THEN RenderFailed
                ELSE Rendered(_block(_vk_link(_vk_id2("app", info.app_id),
                                              _image(info[src_key]))),
                              <<>>, type, {})
          [] type = "graffiti" ->
                IF ~InfoHas(attachment, {"gid", src_key}) THEN RenderFailed
                ELSE Rendered(_block(_vk_link(_vk_id2("graffiti", info.gid),
                                              _image(info[src_key]))),
                              <<>>, type, {})
          [] type = "link" ->
                IF ~InfoHas(attachment, {"url", "title", "description"}) THEN RenderFailed
                ELSE
                LET head == _em(Text("Link: ") \o _link(info.url, Text(info.title)))
                    parsed == _parse_text(info.description)
                    link_description == IF parsed # <<>> THEN parsed ELSE Text(info.title)
                    tail == IF Has(info, "image_src")
                            THEN IF link_description # <<>>
                                 THEN _image_block(info.url, info.image_src, link_description)
                                 ELSE _block(_link(info.url, _image(info.image_src)))
                            ELSE IF link_description # <<>>
                                 THEN _block(link_description)
                                 ELSE <<>>
                IN  Rendered(_block(head \o tail), <<>>, type, {})
          [] type = "album" ->
                IF ~InfoHas(attachment, {"owner_id", "aid", "thumb", "description", "size"})
                THEN RenderFailed
                ELSE IF ~Has(info.thumb, "src") THEN RenderFailed
                ELSE Rendered(
                         _image_block(_vk_url(_vk_id("album", info.owner_id, info.aid)),
                             info.thumb.src,
                             Text("Album: " \o Strip(info.description) \o " ("
                                      \o ToString(info.size) \o " photos)")),
                         <<>>, type, {})
          [] type = "photo" ->
                IF ~InfoHas(attachment, {"owner_id", "pid", src_key}) THEN RenderFailed
                ELSE Rendered(_photo(info, big_image), <<>>, type, {})
          [] type = "posted_photo" ->
                IF ~InfoHas(attachment, {"owner_id", "pid", src_key}) THEN RenderFailed
                ELSE Rendered(_photo(info, big_image), <<>>, type, {})
          [] type = "photos_list" ->
                Rendered(<<>>, <<>>, type, {})
          [] type = "audio" ->
                IF ~InfoHas(attachment, {"performer", "title", "duration"}) THEN RenderFailed
                ELSE Rendered(<<>>,
                         _block(_em(Text("Audio: ") \o
                             _vk_link("search?c%5Bq%5D=" \o info.performer \o "+-+"
                                          \o info.title \o "&c%5Bsection%5D=audio",
                                      Text(info.performer \o " - " \o info.title \o " ("
                                               \o _duration(info.duration) \o ")")))),
                         type, {})
          [] type = "doc" ->
                IF ~InfoHas(attachment, {"title"}) THEN RenderFailed
                ELSE IF Has(info, "url") /\ Has(info, "thumb")
                THEN Rendered(<<>>,
                         _block(_image_block(info.url, info.thumb,
                                             _link(info.url, Text(info.title)))),
                         type, {})
                ELSE Rendered(<<>>, _block(_em(Text("Document: " \o info.title))), type, {})
          [] type = "video" ->
                IF ~InfoHas(attachment, {"image", "title", "duration"}) THEN RenderFailed
                ELSE Rendered(
                         _block(_image(info.image) \o
                                _block(_em(Text(info.title \o " ("
                                                    \o _duration(info.duration) \o ")")))),
                         <<>>, type, {})
          [] type = "note" ->
                IF ~InfoHas(attachment, {"title"}) THEN RenderFailed
                ELSE Rendered(_block(_em(Text("Note: " \o info.title))), <<>>, type, {})
          [] type = "page" ->
                IF ~InfoHas(attachment, {"title"}) THEN RenderFailed
                ELSE Rendered(_block(_em(Text("Page: " \o info.title))), <<>>, type, {})
          [] type = "poll" ->
                IF ~InfoHas(attachment, {"question"}) THEN RenderFailed
                ELSE Rendered(_block(_em(Text("Poll: " \o info.question))), <<>>, type, {})
          [] OTHER ->
                Rendered(<<>>, <<>>, type, {type})

\* The loop over the sorted attachments; it ends at the first one that raises.
\* top_html, bottom_html, categories and unknown_attachments after one more
\* attachment.
Accumulated(acc, r) ==
    IF acc.raised \/ r.raised THEN RenderFailed
    ELSE [raised     |-> FALSE,
          top        |-> acc.top \o r.top,
          bottom     |-> acc.bottom \o r.bottom,
          categories |-> acc.categories \cup r.categories,
          unknown    |-> acc.unknown \cup r.unknown]

RECURSIVE RenderAttachments(_, _, _)
RenderAttachments(attachments, big_image, acc) ==
    IF attachments = <<>> \/ acc.raised THEN acc
    ELSE RenderAttachments(Tail(attachments), big_image,
             Accumulated(acc, RenderAttachment(Head(attachments), big_image)))

\* Mutant: the attachments are not looked at.
IsCheckInWhateverAttached(item, attachments) ==
    item.text = "" /\ Has(item, "geo")

\* not item["text"] and not attachments and "geo" in item
IsCheckIn(item, attachments) ==
    item.text = "" /\ attachments = <<>> /\ Has(item, "geo")

NothingRendered ==
    [raised |-> FALSE, top |-> <<>>, bottom |-> <<>>, categories |-> {}, unknown |-> {}]

\* The post from the loop's results on: the log line of the unknown types, the
\* repost header, the item.
PostItem(us, user, item, main_html, r) ==
    LET errors == IF r.unknown # {}
                  THEN <<LogEntry("error", "Got a post with unknown attachment type",
                                  r.unknown)>>
                  ELSE <<>>
        repost == Has(item, "copy_owner_id") /\ Has(item, "copy_post_id")
    IN
    IF r.raised THEN Raise
    ELSE IF repost /\ ~Has(us, item.copy_owner_id) THEN [kind |-> "raise", log |-> errors]
    ELSE IF ~Has(item, "post_id") THEN [kind |-> "raise", log |-> errors]
    ELSE
    LET body == r.top \o main_html \o r.bottom
        said == _block(_em(_link(_get_user_url(item.copy_owner_id),
                                 Text(us[item.copy_owner_id].name)))
                       \o Text(" writes:")) \o body
    IN  [kind |-> "item",
         log  |-> errors,
         item |-> [title      |-> user.name \o ": wall post",
                   text       |-> IF ~repost THEN body
                                  ELSE IF Has(item, "copy_text")
                                  THEN _quote_block(item.copy_text, said)
                                  ELSE said,
                   url        |-> _vk_url(_vk_id("wall", user.id, item.post_id)),
                   categories |-> IF repost
                                  THEN r.categories \cup {_CATEGORY_TYPE_REPOST}
                                  ELSE r.categories]]

\* main_html: nothing if the text is the title of the singular attachment.
MainHtml(item) ==
    IF Has(item, "attachment")
       /\ Has(item.attachment[item.attachment.type], "title")
       /\ item.text = item.attachment[item.attachment.type].title
    THEN <<>>
    ELSE _parse_text(item.text)

\* The post from its sorted attachments on.
SortedPost(us, user, item, attachments) ==
    IF IsCheckIn(item, attachments)
    THEN IF ~Has(item, "date") THEN Raise
         ELSE [kind |-> "none",
               log  |-> <<LogEntry("debug", "Skip check-in item", {})>>]
    ELSE IF Has(item, "attachment")
            /\ (~Has(item.attachment, "type")
                \/ ~Has(item.attachment, item.attachment.type))
    THEN Raise
    ELSE PostItem(us, user, item, MainHtml(item),
             RenderAttachments(attachments, BigImage(attachments), NothingRendered))

GivenAttachments(item) == IF Has(item, "attachments") THEN item.attachments ELSE <<>>

_post_item(us, user, item) ==
    IF \E i \in DOMAIN GivenAttachments(item) : ~Has(GivenAttachments(item)[i], "type")
    THEN Raise
    ELSE IF ~Has(item, "text") THEN Raise
    ELSE SortedPost(us, user, item, SortedAttachments(GivenAttachments(item)))

(***************************************************************************)
(* vk.py: _get_newsfeed                                                    *)
(***************************************************************************)
FallbackItem ==
    [title |-> "Internal server error",
     text  |-> Text("An internal server error occurred while processing the news item")]

Failed ==
    [kind |-> "item",
     item |-> FallbackItem,
     log  |-> <<LogEntry("exception", "Failed to process news feed item", {})>>]

\* Mutant: wall_photo goes the way of photo.
NormalizeWallPhotoAsPhoto(us, user, api_item) ==
    CASE api_item.type = "post"   -> _post_item(us, user, api_item)
      [] api_item.type \in {"photo", "photo_tag", "wall_photo"}
                                  -> _photo_item(us, user, api_item)
      [] api_item.type = "friend" -> _friend_item(us, user, api_item)
      [] api_item.type = "note"   -> _note_item(us, user, api_item)
      [] OTHER                    -> Raise

\* The dispatch on api_item["type"].
Normalize(us, user, api_item) ==
    CASE api_item.type = "post"                 -> _post_item(us, user, api_item)
      [] api_item.type \in {"photo", "photo_tag"} -> _photo_item(us, user, api_item)
      [] api_item.type = "wall_photo"           -> None
      [] api_item.type = "friend"               -> _friend_item(us, user, api_item)
      [] api_item.type = "note"                 -> _note_item(us, user, api_item)
      [] OTHER                                  -> Raise

\* What the assembler adds to an item the dispatch returned.
Completed(user, api_item, item) ==
    LET mine     == IF Has(item, "categories") THEN item.categories ELSE {}
        authored == Put(item, "author", user.name)
        wrapped  == Put(authored, "text",
                        _image_block(_get_user_url(user.id), user.photo, item.text))
    IN  Put(wrapped, "categories",
            mine \cup {_CATEGORY_TYPE \o api_item.type,
                       (IF user.id < 0 THEN _CATEGORY_SOURCE_GROUP
                        ELSE _CATEGORY_SOURCE_USER) \o _get_profile_name(user.id)})

\* The try/except around one raw item: "continue" or the item to emit.
\* What the try block makes of the dispatch's result.
Tried(user, api_item, r) ==
    CASE r.kind = "raise" -> [Failed EXCEPT !.log = r.log \o @]
      [] r.kind = "none"  -> [kind |-> "continue", log |-> r.log]
      [] OTHER            -> [kind |-> "item",
                              item |-> Completed(user, api_item, r.item),
                              log  |-> r.log]

TryItem(us, api_item) ==
    IF ~Has(api_item, "source_id") THEN Failed
    ELSE IF ~Has(us, api_item.source_id) THEN Failed
    ELSE IF ~Has(api_item, "type") THEN Failed
    ELSE Tried(us[api_item.source_id], api_item,
               Normalize(us, us[api_item.source_id], api_item))

\* item["id"] and item["time"]
ItemId(api_item) ==
    _get_profile_name(api_item.source_id) \o "/" \o api_item.type
        \o "/" \o ToString(api_item.date)

Stamped(api_item, item) == Put(Put(item, "id", ItemId(api_item)), "time", api_item.date)

\* Mutant: the newest item first.
AppendedFirst(seq, item) == <<item>> \o seq

\* items.append(item)
Appended(seq, item) == Append(seq, item)

FeedFailure == LogEntry("exception", "Failed to process news feed", {})

\* Lines 84-92: the call's response, the actor map, the newsfeed log line.
Begin ==
    /\ pc = "start"
    /\ IF HasAll(response, {"profiles", "groups", "items"})
       THEN /\ users' = _get_users(response.profiles, response.groups)
            /\ log' = Append(log, LogEntry("info", "Newsfeed", {}))
            /\ pos' = 1
            /\ pc' = "loop"
       ELSE /\ users' = IF HasAll(response, {"profiles", "groups"})
                        THEN _get_users(response.profiles, response.groups)
                        ELSE users
            /\ log' = Append(log, FeedFailure)
            /\ pc' = "raised"
            /\ pos' = pos
    /\ UNCHANGED <<response, items, feed, DEBUG_MODE, rendered, rss>>

\* The rest of an iteration, once the try block has made r of api_item.
Emit(api_item, r) ==
    IF r.kind = "continue"
    THEN /\ log' = log \o r.log
         /\ pos' = pos + 1
         /\ UNCHANGED <<items, pc>>
    ELSE IF HasAll(api_item, {"source_id", "type", "date"})
    THEN /\ items' = Appended(items, Stamped(api_item, r.item))
         /\ log' = log \o r.log
         /\ pos' = pos + 1
         /\ pc' = pc
    ELSE /\ log' = (log \o r.log) \o <<FeedFailure>>
         /\ pc' = "raised"
         /\ UNCHANGED <<items, pos>>

\* One iteration of the loop over response["items"].
Iterate ==
    /\ pc = "loop"
    /\ pos <= Len(response.items)
    /\ Emit(response.items[pos], TryItem(users, response.items[pos]))
    /\ UNCHANGED <<response, users, feed, DEBUG_MODE, rendered, rss>>

\* The loop is over: the feed envelope.
Return ==
    /\ pc = "loop"
    /\ pos > Len(response.items)
    /\ feed' = [title       |-> "VK: News",
                url         |-> _vk_url(""),
                image       |-> _vk_url("press/Simple.png"),
                description |-> "VK news feed",
                items       |-> items]
    /\ pc' = "done"
    /\ UNCHANGED <<response, users, items, pos, log, DEBUG_MODE, rendered, rss>>

(***************************************************************************)
(* rss.py: generate                                                        *)
(***************************************************************************)
\* The bytes \s matches, among those of the model.
Whitespace == {" ", "\n"}

\* The length of the run of whitespace that starts at position i.
RECURSIVE SpaceRun(_, _)
SpaceRun(bytes, i) ==
    IF i <= Len(bytes) /\ bytes[i] \in Whitespace THEN 1 + SpaceRun(bytes, i + 1) ELSE 0

\* re.sub(br">\s+<", b"><", bytes), scanning from position i: \s+ takes the
\* whole run, so there is a match at i exactly if the run is followed by "<".
RECURSIVE SubFrom(_, _)
SubFrom(bytes, i) ==
    IF i > Len(bytes) THEN <<>>
    ELSE LET n == SpaceRun(bytes, i + 1)
         IN  IF /\ bytes[i] = ">"
                /\ n >= 1
                /\ i + n + 1 <= Len(bytes)
                /\ bytes[i + n + 1] = "<"
             THEN <<">", "<">> \o SubFrom(bytes, i + n + 2)
             ELSE <<bytes[i]>> \o SubFrom(bytes, i + 1)

re_sub(bytes) == SubFrom(bytes, 1)

\* generate, from the template's output on.
Generate ==
    /\ pc = "generate"
    /\ rss' = IF ~DEBUG_MODE THEN re_sub(rendered) ELSE rendered
    /\ pc' = "generated"
    /\ UNCHANGED <<response, users, items, pos, feed, log, DEBUG_MODE, rendered>>


(***************************************************************************)
(* Inputs: the responses the model draws from                              *)
(***************************************************************************)
MaxItems == 3

MaxAttachments == 2

MaxEntries == 2

MaxTotal == 3

SeqsUpTo(S, n) == UNION {[1..k -> S] : k \in 0..n}

\* A dict with the keys of both, those of env taking precedence.
Merge(payload, env) ==
    [k \in DOMAIN payload \cup DOMAIN env |->
        IF k \in DOMAIN env THEN env[k] ELSE payload[k]]

Profiles == <<[uid |-> 1, first_name |-> "Ann", last_name |-> "Lee", photo |-> "u1.jpg"]>>

Groups == <<[gid |-> 1, name |-> "Club", photo |-> "g1.jpg"]>>

\* source_id 2 resolves to no actor; a key left out is a field the item lacks.
Plain == [source_id |-> 1, date |-> 10]

Envelopes ==
    {Plain,
     [source_id |-> 1, date |-> 20],
     [source_id |-> -1, date |-> 10],
     [source_id |-> 2, date |-> 10],
     [date |-> 10],
     [source_id |-> 1]}

PhotoInfo(pid) ==
    [owner_id |-> 1, pid |-> pid,
     src |-> "s" \o ToString(pid) \o ".jpg", src_big |-> "b" \o ToString(pid) \o ".jpg"]

AttachmentInputs ==
    {[type |-> "photo", photo |-> PhotoInfo(7)],
     [type |-> "photo", photo |-> [owner_id |-> 1, pid |-> 6, src |-> "s6.jpg"]],
     [type |-> "posted_photo", posted_photo |-> PhotoInfo(8)],
     [type |-> "app", app |-> [app_id |-> 4, src |-> "sa.jpg", src_big |-> "ba.jpg"]],
     [type |-> "graffiti",
      graffiti |-> [gid |-> 9, src |-> "sg.jpg", src_big |-> "bg.jpg"]],
     [type |-> "photos_list", photos_list |-> <<"1_7">>],
     [type |-> "audio", audio |-> [performer |-> "Band", title |-> "Song", duration |-> 125]],
     [type |-> "doc", doc |-> [title |-> "Paper"]],
     [type |-> "doc", doc |-> [title |-> "Paper", url |-> "d.pdf", thumb |-> "d.jpg"]],
     [type |-> "link", link |-> [url |-> "http://a.b/x", title |-> "Site", description |-> ""]],
     [type |-> "link",
      link |-> [url |-> "http://a.b/x", title |-> "", description |-> " ",
                image_src |-> "l.jpg"]],
     [type |-> "video", video |-> [image |-> "v.jpg", title |-> "Clip", duration |-> 3725]],
     [type |-> "note", note |-> [title |-> "Memo"]],
     [type |-> "page", page |-> [title |-> "Wiki"]],
     [type |-> "poll", poll |-> [question |-> "Why"]],
     [type |-> "album",
      album |-> [owner_id |-> 1, aid |-> 2, thumb |-> [src |-> "t.jpg"],
                 description |-> "Trip", size |-> 12]],
     [type |-> "sticker", sticker |-> [id |-> 1]],
     [type |-> "gift"],
     [type |-> "video"],
     [video |-> [title |-> "Clip"]]}

PostTexts == {"", " ", "hello"}

PostInputs ==
    {[type |-> "post", text |-> text, post_id |-> 5, attachments |-> attachments]
        : text \in PostTexts, attachments \in SeqsUpTo(AttachmentInputs, MaxAttachments)}

WithGeo(Posts) == {Put(post, "geo", "55.7 37.6") : post \in Posts}

Plainest == [type |-> "post", text |-> "hello", post_id |-> 5]

CheckIn == [type |-> "post", text |-> "", post_id |-> 5, geo |-> "55.7 37.6"]

OddPosts ==
    {Plainest,
     CheckIn,
     [type |-> "post", text |-> " ", post_id |-> 5, geo |-> "55.7 37.6"],
     [type |-> "post", text |-> ""],
     [type |-> "post", text |-> "hello"],
     [type |-> "post", post_id |-> 5, geo |-> "55.7 37.6"],
     Merge(Plainest, [copy_owner_id |-> -1, copy_post_id |-> 3]),
     Merge(Plainest, [copy_owner_id |-> -1, copy_post_id |-> 3, copy_text |-> "look"]),
     Merge(Plainest, [copy_owner_id |-> 2, copy_post_id |-> 3,
                      attachments |-> <<[type |-> "gift"]>>]),
     Merge(Plainest, [copy_owner_id |-> -1]),
     Merge(Plainest, [attachment |-> [type |-> "link", link |-> [title |-> "hello"]]]),
     Merge(Plainest, [attachment |-> [type |-> "link", link |-> [url |-> "http://a.b/x"]]]),
     Merge(Plainest, [attachment |-> [type |-> "link"]])}

FriendEntries == {[uid |-> 1], [uid |-> -1], [uid |-> 2], [name |-> "Bob"]}

NoteEntries ==
    {[owner_id |-> 1, nid |-> 3, title |-> "Memo"],
     [owner_id |-> -1, nid |-> 4, title |-> "Plan"],
     [owner_id |-> 1, nid |-> 5]}

PhotoEntries ==
    {PhotoInfo(7), PhotoInfo(8), [owner_id |-> 1, pid |-> 6, src |-> "s6.jpg"]}

\* [declared_total, entry, ...]
Counted(Entries) ==
    {<<total>> \o entries : total \in 0..MaxTotal, entries \in SeqsUpTo(Entries, MaxEntries)}

FriendInputs ==
    {[type |-> "friend"], [type |-> "friend", friends |-> <<>>]}
        \cup {[type |-> "friend", friends |-> friends] : friends \in Counted(FriendEntries)}

NoteInputs ==
    {[type |-> "note"], [type |-> "note", notes |-> <<>>]}
        \cup {[type |-> "note", notes |-> notes] : notes \in Counted(NoteEntries)}

PhotoInputs ==
    {[type |-> "photo"], [type |-> "photo_tag", photo_tags |-> <<>>]}
        \cup {[type |-> "photo", photos |-> photos] : photos \in Counted(PhotoEntries)}
        \cup {[type |-> "photo_tag", photo_tags |-> photos] : photos \in Counted(PhotoEntries)}

WallPhotoInputs ==
    {[type |-> "wall_photo"],
     [type |-> "wall_photo", text |-> "hello", post_id |-> 5],
     [type |-> "wall_photo", photos |-> <<1, PhotoInfo(7)>>]}

OtherInputs == {[type |-> "video"], [type |-> "gift", text |-> "hello"], [text |-> "hello"]}

\* The payloads every envelope is tried on.
CuratedPayloads ==
    OddPosts \cup WallPhotoInputs \cup OtherInputs
        \cup {[type |-> "friend"],
              [type |-> "friend", friends |-> <<1, [uid |-> 1]>>],
              [type |-> "note", notes |-> <<2, [owner_id |-> 1, nid |-> 3, title |-> "Memo"]>>],
              [type |-> "note", notes |-> <<2>>],
              [type |-> "photo", photos |-> <<1, PhotoInfo(7)>>],
              [type |-> "photo_tag", photo_tags |-> <<0>>]}

\* One raw item of every shape.
ItemInputs ==
    {Merge(payload, Plain) :
        payload \in PostInputs \cup WithGeo(PostInputs) \cup FriendInputs
                        \cup NoteInputs \cup PhotoInputs}
        \cup {Merge(payload, env) : payload \in CuratedPayloads, env \in Envelopes}

\* The raw items the feeds of several items are made of.
FeedPayloads ==
    {Plainest,
     CheckIn,
     [type |-> "wall_photo"],
     [type |-> "friend"],
     [type |-> "note", notes |-> <<2, [owner_id |-> 1, nid |-> 3, title |-> "Memo"]>>],
     [type |-> "video"],
     [text |-> "hello"]}

FeedInputs ==
    {Merge(payload, Plain) : payload \in FeedPayloads}
        \cup {Merge(Plainest, env) : env \in Envelopes}
        \cup {[type |-> "wall_photo", source_id |-> 2, date |-> 10],
              [type |-> "wall_photo", source_id |-> 1]}

Response(raw) == [profiles |-> Profiles, groups |-> Groups, items |-> raw]

Truncated ==
    {[groups |-> Groups, items |-> <<>>],
     [profiles |-> Profiles, items |-> <<>>],
     [profiles |-> Profiles, groups |-> Groups]}

Idle ==
    /\ users = EmptyDict
    /\ items = <<>>
    /\ pos = 0
    /\ feed = EmptyDict
    /\ log = <<>>

NoRss ==
    /\ DEBUG_MODE = FALSE
    /\ rendered = <<>>
    /\ rss = <<>>

\* A request whose response holds up to MaxItems raw items.
Init ==
    /\ response \in {Response(raw) : raw \in SeqsUpTo(FeedInputs, MaxItems)} \cup Truncated
    /\ pc = "start"
    /\ Idle
    /\ NoRss

\* A request whose response holds one raw item.
InitItem ==
    /\ response \in {Response(<<raw>>) : raw \in ItemInputs}
    /\ pc = "start"
    /\ Idle
    /\ NoRss

Next == Begin \/ Iterate \/ Return

Spec == Init /\ [][Next]_vars

SpecItem == InitItem /\ [][Next]_vars

MaxTokens == 5

\* What the template writes: tags, and character data in which escape() has
\* left no "<" and no ">".
Tokens == {<<"<", "t", ">">>, <<"<", "/", "t", ">">>, <<" ">>, <<"\n">>, <<"x">>}

IsOpen(token) == Len(token) = 3

IsClose(token) == Len(token) = 4

\* The nesting depth after the tokens, -1 once a tag closes what is not open.
RECURSIVE Depth(_, _)
Depth(tokens, depth) ==
    IF tokens = <<>> THEN depth
    ELSE IF IsOpen(Head(tokens)) THEN Depth(Tail(tokens), depth + 1)
    ELSE IF IsClose(Head(tokens))
         THEN IF depth = 0 THEN -1 ELSE Depth(Tail(tokens), depth - 1)
    ELSE IF depth = 0 /\ Head(tokens) = <<"x">> THEN -1
    ELSE Depth(Tail(tokens), depth)

RECURSIVE Flat(_)
Flat(tokens) == IF tokens = <<>> THEN <<>> ELSE Head(tokens) \o Flat(Tail(tokens))

\* The documents: every tag closed, no text outside the tags.
Documents ==
    {Flat(tokens) : tokens \in {d \in SeqsUpTo(Tokens, MaxTokens) : Depth(d, 0) = 0}}

\* A feed was assembled and rendered by the template; generate takes over.
InitRss ==
    /\ rendered \in Documents
    /\ DEBUG_MODE \in BOOLEAN
    /\ rss = <<>>
    /\ pc = "generate"
    /\ response = EmptyDict
    /\ Idle

NextRss == Generate

SpecRss == InitRss /\ [][NextRss]_vars

(***************************************************************************)
(* Properties of _get_newsfeed                                             *)
(***************************************************************************)
Complete == HasAll(response, {"profiles", "groups", "items"})

Ended == pc \in {"done", "raised"}

IsSkipped(api_item) == TryItem(users, api_item).kind = "continue"

Faults(api_item) ==
    LET r == TryItem(users, api_item)
    IN  r.kind = "item" /\ r.item = FallbackItem

IsFallback(item) ==
    /\ item.title = FallbackItem.title
    /\ item.text = FallbackItem.text
    /\ ~Has(item, "categories")

\* What the loop emits for a raw item that is not skipped.
Emitted(api_item) == Stamped(api_item, TryItem(users, api_item).item)

\* C1: in a response none of whose n raw items is skipped, if normalizing some
\* item raises, the feed is returned with n items, the fallback error item at
\* the position of every item that raised and every other item as it is
\* without the fault.
C1_FaultIsolation ==
    (/\ Ended
     /\ Complete
     /\ \A k \in DOMAIN response.items : ~IsSkipped(response.items[k])
     /\ \E k \in DOMAIN response.items : Faults(response.items[k]))
    => /\ pc = "done"
       /\ Len(feed.items) = Len(response.items)
       /\ \A k \in DOMAIN response.items :
            IF Faults(response.items[k])
            THEN IsFallback(feed.items[k])
            ELSE feed.items[k] = Emitted(response.items[k])

\* C2: a response that has profiles, groups and items always yields a feed,
\* whatever is wrong with a raw item; only a response lacking one of the three
\* raises.
C2_ItemNeverAbortsFeed == (Ended /\ Complete) => pc = "done"

\* C5: every item of the returned feed has the id and the time of a raw item
\* (<profile name>/<type>/<date>, date), and no two items have the same id.
C5_IdsUnique ==
    pc = "done" =>
        /\ \A i \in DOMAIN feed.items :
             \E k \in DOMAIN response.items :
                /\ HasAll(response.items[k], {"source_id", "type", "date"})
                /\ feed.items[i].id = ItemId(response.items[k])
                /\ feed.items[i].time = response.items[k].date
        /\ \A i, j \in DOMAIN feed.items :
             i # j => feed.items[i].id # feed.items[j].id

StrictlyIncreasing(f) == \A i, j \in DOMAIN f : i < j => f[i] < f[j]

\* C6: the raw items before pos have each been taken once; the items
\* accumulated are, in upstream order, what the loop emits for those of them
\* that are not skipped, one each; the returned feed holds exactly these.
C6_OrderMirrorsUpstream ==
    (pc # "start" /\ Complete) =>
        /\ Len(items) <= pos - 1
        /\ pos - 1 <= Len(response.items)
        /\ \E f \in [1..Len(items) -> 1..(pos - 1)] :
             /\ StrictlyIncreasing(f)
             /\ \A i \in 1..Len(items) :
                  /\ ~IsSkipped(response.items[f[i]])
                  /\ items[i] = Emitted(response.items[f[i]])
             /\ \A k \in 1..(pos - 1) :
                  IsSkipped(response.items[k]) <=> (\A i \in 1..Len(items) : f[i] # k)
        /\ pc = "done" => (feed.items = items /\ pos - 1 = Len(response.items))

\* C6 witness: three raw items, the second skipped, two different items emitted.
C6_Witness ==
    /\ pc = "done"
    /\ Len(response.items) = 3
    /\ IsSkipped(response.items[2])
    /\ Len(feed.items) = 2
    /\ feed.items[1] # feed.items[2]

(***************************************************************************)
(* Properties of one raw item (SpecItem: the response holds one)           *)
(***************************************************************************)
TheItem == response.items[1]

\* The loop has taken the item, or has raised on it.
Taken == pos = 2 \/ (pc = "raised" /\ pos = 1)

\* The item contributed nothing and the loop went on.
NothingEmitted == pos = 2 /\ items = <<>>

Resolves(api_item) == Has(api_item, "source_id") /\ Has(users, api_item.source_id)

OfType(api_item, type) == Has(api_item, "type") /\ api_item.type = type

\* C3 as claimed: a wall_photo item contributes nothing to the feed, whatever
\* its other fields are, a source_id that resolves to no actor included.
C3_WallPhotoAlwaysSkipped ==
    (Taken /\ OfType(TheItem, "wall_photo")) => NothingEmitted

\* C3 amended: a wall_photo item whose source_id resolves to an actor
\* contributes nothing to the feed, whatever its other fields are, and raises
\* nothing; one whose source_id is missing or resolves to no actor is not
\* skipped (the actor is looked up before the type).
C3_ResolvedWallPhotoSkipped ==
    (Taken /\ OfType(TheItem, "wall_photo")) =>
        IF Resolves(TheItem)
        THEN NothingEmitted /\ \A i \in DOMAIN log : log[i].level # "exception"
        ELSE ~NothingEmitted

\* C3 witness: a wall_photo with a payload and a known actor left the feed empty.
C3_Witness ==
    /\ pc = "done"
    /\ OfType(TheItem, "wall_photo")
    /\ Has(TheItem, "photos")
    /\ Resolves(TheItem)
    /\ feed.items = <<>>

\* _post_item is called on the item.
PostCalled == OfType(TheItem, "post") /\ Resolves(TheItem)

NoAttachments(post) == ~Has(post, "attachments") \/ Len(post.attachments) = 0

CheckInOnly(post) ==
    /\ Has(post, "text") /\ post.text = ""
    /\ NoAttachments(post)
    /\ Has(post, "geo")

PostReturns == _post_item(users, users[TheItem.source_id], TheItem).kind

NormalItem == pc = "done" /\ Len(feed.items) = 1 /\ ~IsFallback(feed.items[1])

\* The sources of all images of an HTML string.
RECURSIVE Images(_)
Images(html) ==
    IF html = <<>> THEN {}
    ELSE (IF Head(html).tag = "img" THEN {Head(html).arg} ELSE {})
             \cup Images(Head(html).body) \cup Images(Tail(html))

PhotoBearing(post) ==
    {i \in DOMAIN post.attachments :
        post.attachments[i].type \in {"app", "graffiti", "photo", "posted_photo"}}

\* C8: in a post that yields a normal item, every app, graffiti, photo and
\* posted_photo attachment is rendered with its large image if the post has
\* exactly one attachment of these four types, and with its standard image
\* otherwise; attachments of other types (photos_list too) do not count.
C8_ImageSizePostWide ==
    (NormalItem /\ PostCalled /\ Has(TheItem, "attachments")) =>
        \A i \in PhotoBearing(TheItem) :
            LET info == TheItem.attachments[i][TheItem.attachments[i].type]
                used == Images(feed.items[1].text)
            IN  IF Cardinality(PhotoBearing(TheItem)) = 1
                THEN info.src_big \in used /\ info.src \notin used
                ELSE info.src \in used
                         /\ (Has(info, "src_big") => info.src_big \notin used)

\* C8 witness: one photo beside a photos_list attachment, rendered large.
C8_Witness ==
    /\ NormalItem
    /\ PostCalled
    /\ Has(TheItem, "attachments")
    /\ Cardinality(PhotoBearing(TheItem)) = 1
    /\ \E i \in DOMAIN TheItem.attachments : TheItem.attachments[i].type = "photos_list"
    /\ \E i \in PhotoBearing(TheItem) :
         TheItem.attachments[i][TheItem.attachments[i].type].src_big
             \in Images(feed.items[1].text)

KnownAttachments ==
    {"app", "graffiti", "link", "album", "photo", "posted_photo", "photos_list",
     "audio", "doc", "video", "note", "page", "poll"}

Retagged(type) ==
    CASE type = "photo"       -> "posted_photo"
      [] type = "photos_list" -> "posted_photo"
      [] OTHER                -> type

UnknownTypes(post) ==
    {post.attachments[i].type : i \in DOMAIN post.attachments} \ KnownAttachments

IsKnown(attachment) == attachment.type \in KnownAttachments

\* The post without its attachments of unknown type, and without the geo field,
\* which only decides whether the post is skipped.
WithoutUnknown(post) ==
    [k \in DOMAIN post \ {"geo"} |->
        IF k = "attachments" THEN SelectSeq(post.attachments, IsKnown) ELSE post[k]]

Typed(post) ==
    /\ Has(post, "attachments")
    /\ \A i \in DOMAIN post.attachments : Has(post.attachments[i], "type")

\* C10: in a post that yields a normal item every attachment, unknown ones
\* too, gives the category type/<type> (posted_photo for photo and
\* photos_list); the unknown types are recorded, in one log entry for the
\* post; they add no HTML to the body; and a post with an attachment of
\* unknown type fails only if it fails without it.
C10_UnknownAttachments ==
    (Taken /\ PostCalled /\ Typed(TheItem)) =>
        LET user   == users[TheItem.source_id]
            r      == _post_item(users, user, TheItem)
            bare   == _post_item(users, user, WithoutUnknown(TheItem))
            errors == {i \in DOMAIN log : log[i].level = "error"}
        IN  /\ UnknownTypes(TheItem) # {} =>
                 /\ r.kind # "none"
                 /\ r.kind = "raise" <=> bare.kind = "raise"
            /\ NormalItem =>
                 /\ \A i \in DOMAIN TheItem.attachments :
                      (_CATEGORY_TYPE \o Retagged(TheItem.attachments[i].type))
                          \in feed.items[1].categories
                 /\ feed.items[1].text = Completed(user, TheItem, bare.item).text
                 /\ IF UnknownTypes(TheItem) = {} THEN errors = {}
                    ELSE /\ Cardinality(errors) = 1
                         /\ \A i \in errors : log[i].args = UnknownTypes(TheItem)

\* C10 witness: a photo and an attachment of an unknown type, a normal item.
C10_Witness ==
    /\ NormalItem
    /\ PostCalled
    /\ Typed(TheItem)
    /\ UnknownTypes(TheItem) # {}
    /\ \E i \in DOMAIN TheItem.attachments : TheItem.attachments[i].type = "photo"
    /\ {"type/posted_photo", "type/sticker"} \subseteq feed.items[1].categories

\* How many "[not all ... are shown]" notices an HTML string holds.
Notices == {"[not all new friends are shown]", "[not all notes are shown]"}

RECURSIVE NoticeCount(_)
NoticeCount(html) ==
    IF html = <<>> THEN 0
    ELSE (IF Head(html).tag = "text" /\ Head(html).arg \in Notices THEN 1 ELSE 0)
             + NoticeCount(Head(html).body) + NoticeCount(Tail(html))

\* A friend or note item with a payload [declared_total, entry, ...] whose
\* entries are all well formed.
Payload(api_item) ==
    IF OfType(api_item, "friend") /\ Has(api_item, "friends")
    THEN api_item.friends
    ELSE IF OfType(api_item, "note") /\ Has(api_item, "notes")
    THEN api_item.notes
    ELSE <<>>

WellFormedEntries(api_item) ==
    \A i \in 2..Len(Payload(api_item)) :
        IF api_item.type = "friend"
        THEN Has(Payload(api_item)[i], "uid") /\ Has(users, Payload(api_item)[i].uid)
        ELSE HasAll(Payload(api_item)[i], {"owner_id", "nid", "title"})

\* C7: for a friend or note item [declared_total, entries...], the body of the
\* feed item holds exactly one "[not all shown]" notice if declared_total
\* exceeds the number of entries and none otherwise, whatever the number of
\* entries is, zero included.
C7_NoticeIffTotalExceeds ==
    (/\ pc = "done"
     /\ Resolves(TheItem)
     /\ Len(Payload(TheItem)) >= 1
     /\ WellFormedEntries(TheItem))
    => /\ Len(feed.items) = 1
       /\ NoticeCount(feed.items[1].text)
              = (IF Payload(TheItem)[1] > Len(Payload(TheItem)) - 1 THEN 1 ELSE 0)

(***************************************************************************)
(* Properties of generate                                                  *)
(***************************************************************************)
\* Whether the tag that ends at position i (a ">") is an opening tag.
OpensAt(bytes, i) ==
    \E k \in 1..(i - 1) :
        /\ bytes[k] = "<"
        /\ bytes[k + 1] # "/"
        /\ \A m \in (k + 1)..(i - 1) : bytes[m] \notin {"<", ">"}

\* <<i, j>>: an opening tag ends at i, the closing tag that follows starts at j.
Leaves(bytes) ==
    {p \in (1..Len(bytes)) \X (1..Len(bytes)) :
        /\ p[1] < p[2]
        /\ bytes[p[1]] = ">"
        /\ OpensAt(bytes, p[1])
        /\ bytes[p[2]] = "<"
        /\ p[2] < Len(bytes)
        /\ bytes[p[2] + 1] = "/"
        /\ \A m \in (p[1] + 1)..(p[2] - 1) : bytes[m] \notin {"<", ">"}}

\* The text contents of the elements that hold text only, in document order.
LeafTexts(bytes) ==
    [n \in 1..Cardinality(Leaves(bytes)) |->
        LET p == CHOOSE q \in Leaves(bytes) :
                     Cardinality({o \in Leaves(bytes) : o[1] < q[1]}) = n - 1
        IN  SubSeq(bytes, p[1] + 1, p[2] - 1)]

\* C9: in production mode the compaction is idempotent and leaves the text
\* content of every tag as it was, whitespace-only content included; in debug
\* mode the output is the template's output.
C9_CompactionKeepsText ==
    pc = "generated" =>
        IF DEBUG_MODE THEN rss = rendered
        ELSE /\ re_sub(rss) = rss
             /\ LeafTexts(rss) = LeafTexts(rendered)

====
